---- MODULE Spec2Model ----
(***************************************************************************)
(* Model of the REST request pipeline of src/rest.go: BaseRestClient with  *)
(* Request, RequestWithFiles and handleRequest, the retry loop, and the    *)
(* gate made of the read/write lock mu and the deadline lockedTo.          *)
(* Every concurrent call is one process; the transport is the environment. *)
(***************************************************************************)
EXTENDS Integers, Sequences, FiniteSets, TLC

\* ---------------------------------------------------------------- bounds
\* Number of concurrent calls on the one client.
NumCalls == 2
\* Longest file list handed to RequestWithFiles.
MaxFiles == 1
\* Last second of the clock that free-running time reaches.
MaxTime == 2

\* ------------------------------------------------------ program constants
\* rest.go:52  MaxRetries: 3
MaxRetries == 3
\* rest.go:191 rateErr.RetryAfter+5
RateLimitMargin == 5
\* rest.go:84  250*i
BackoffUnit == 250
\* rest.go:75  var i uint8: arithmetic on i is modulo 2^8
Uint8Range == 256
\* time.Microsecond per time.Second, the unit of the model's clock
MicrosPerSecond == 1000000

Calls == 1..NumCalls
None == 0
\* time.Time{}: the zero time, lockedTo.IsZero()
ZeroTime == 0

\* ----------------------------------------------------------------- inputs
Functions == {"Request", "RequestWithFiles"}
Methods == {"POST", "P OST"}
\* "obj" is a message whose array field (its components) is nil: its JSON
\* text holds a null where an array is expected.
Payloads == {"nil", "obj", "unserializable"}
\* An *os.File as the pipeline sees it: its name, whether Stat() works and
\* whether its content can be read by io.Copy.
FileA == [name |-> "a.png", stat |-> TRUE, read |-> TRUE]
FileB == [name |-> "b.png", stat |-> TRUE, read |-> TRUE]
FileGone == [name |-> "gone", stat |-> FALSE, read |-> FALSE]
FileUnreadable == [name |-> "dir", stat |-> TRUE, read |-> FALSE]
Files == {FileA, FileB, FileGone, FileUnreadable}
FileLists == UNION {[1..n -> Files] : n \in 0..MaxFiles}

\* retry_after of a 429 body, in tenths of a second (float32 seconds in Go).
RetryAfters == {20, 25}
\* What HTTPClient.Do and io.ReadAll give for one attempt: a transport
\* failure, or a status with a body that can be read or not (the body of a
\* 204 is never read), a 429's body carrying retry_after.
TransportFailure == [transport |-> TRUE, status |-> 0, readOK |-> FALSE, retryAfter |-> 0]
Responses ==
    {TransportFailure}
    \cup {[transport |-> FALSE, status |-> s, readOK |-> r, retryAfter |-> 0] :
            s \in {200, 404}, r \in BOOLEAN}
    \cup {[transport |-> FALSE, status |-> 204, readOK |-> TRUE, retryAfter |-> 0]}
    \cup {[transport |-> FALSE, status |-> 429, readOK |-> TRUE, retryAfter |-> ra] :
            ra \in RetryAfters}
    \cup {[transport |-> FALSE, status |-> 429, readOK |-> FALSE, retryAfter |-> 0]}
\* No attempt answered yet.
NoResponse == [transport |-> FALSE, status |-> 0, readOK |-> FALSE, retryAfter |-> 0]

\* ------------------------------------------------------------ pure helpers
\* requestSwapNullArray and requestSwapEmptyArray, the byte strings line 65
\* hands to bytes.Replace: a null in the place of an array, and the empty
\* array that replaces it.  JSON text is a sequence of such tokens.
requestSwapNullArray == "components:null"
requestSwapEmptyArray == "components:[]"

\* json.Marshal(jsonPayload): fails for a value that has no JSON form.
Marshal(p) ==
    [ok |-> p # "unserializable",
     raw |-> IF p = "unserializable"
             THEN <<>>
             ELSE <<"{", "content:hi", requestSwapNullArray, "}">>]

\* bytes.Replace(raw, old, new, -1), lines 65 and 110: every occurrence.
BytesReplace(raw, old, new) ==
    [k \in 1..Len(raw) |-> IF raw[k] = old THEN new ELSE raw[k]]

\* The patched JSON text of lines 65 and 110.
PatchedJSON(p) == BytesReplace(Marshal(p).raw, requestSwapNullArray, requestSwapEmptyArray)

\* json.NewEncoder(w).Encode(v): the JSON text followed by a newline.
EncoderEncode(p) == Marshal(p).raw \o <<"\n">>

\* A body handed to the retry loop.  present = FALSE is the nil io.Reader;
\* pre are the bytes in front of the first multipart boundary.
NoBody == [present |-> FALSE, pre |-> <<>>, parts |-> <<>>, closed |-> FALSE]

\* partHeader + CreatePart + the part's content.
JsonPart(p) ==
    [disposition |-> <<"payload_json", 0>>, filename |-> "",
     ctype |-> "application/json", data |-> EncoderEncode(p)]
FilePart(k, f) ==
    [disposition |-> <<"files", k>>, filename |-> f.name,
     ctype |-> "application/octet-stream", data |-> <<"content", f.name>>]

\* Index (from 1) of the first file whose Stat or io.Copy fails, 0 if none.
FirstBadFile(fs) ==
    IF \E k \in 1..Len(fs) : ~fs[k].stat \/ ~fs[k].read
    THEN CHOOSE k \in 1..Len(fs) :
            /\ ~fs[k].stat \/ ~fs[k].read
            /\ \A j \in 1..(k - 1) : fs[j].stat /\ fs[j].read
    ELSE 0

\* Request, lines 58-66: the body of the plain JSON path.
EncodeJSON(p) ==
    IF p = "nil" THEN [status |-> "ok", err |-> "", body |-> NoBody]
    ELSE IF ~Marshal(p).ok
         THEN [status |-> "err", err |-> "parse payload", body |-> NoBody]
         ELSE [status |-> "ok", err |-> "",
               body |-> [present |-> TRUE, pre |-> PatchedJSON(p),
                         parts |-> <<>>, closed |-> FALSE]]

\* RequestWithFiles, lines 102-145: the multipart body.  With a nil payload
\* writer stays nil and writer.CreatePart at line 114 dereferences it: the
\* call panics.  The buffer the writer appends to already holds the JSON
\* text (line 110), which ends up in front of the first boundary.
EncodeMultipart(p, fs) ==
    IF p # "nil" /\ ~Marshal(p).ok
    THEN [status |-> "err", err |-> "parse payload", body |-> NoBody]
    ELSE IF p = "nil"
    THEN [status |-> "panic", err |-> "nil writer", body |-> NoBody]
    ELSE LET bad == FirstBadFile(fs) IN
         IF bad # 0
         THEN [status |-> "err",
               err |-> IF ~fs[bad].stat THEN "stat file" ELSE "copy file",
               body |-> NoBody]
         ELSE [status |-> "ok", err |-> "",
               body |-> [present |-> TRUE, pre |-> PatchedJSON(p),
                         parts |-> <<JsonPart(p)>> \o
                                   [k \in 1..Len(fs) |-> FilePart(k - 1, fs[k])],
                         closed |-> TRUE]]

\* http.NewRequest, line 163: fails for a method that is no valid token.
NewRequestOK(m) == m = "POST"

\* time.Microsecond * time.Duration(250*i), lines 84 and 156: i is a uint8 and
\* 250 an untyped constant, so the product is formed in uint8.
BackoffMicros(n) == (BackoffUnit * n) % Uint8Range

\* time.Second * time.Duration(rateErr.RetryAfter+5), line 191: the float is
\* truncated to whole seconds by the conversion to time.Duration.
RateLimitSeconds(ra) == (ra + RateLimitMargin * 10) \div 10

\* The payload of the value a call returns.
Bytes(b) == [kind |-> "bytes", status |-> 0, body |-> b]
Empty == [kind |-> "empty", status |-> 0, body |-> <<>>]
Error(tag, st, b) == [kind |-> tag, status |-> st, body |-> b]
NoResult == [kind |-> "none", status |-> 0, body |-> <<>>]

\* The body a server sends with a status.
RespBody(st) == <<"body", st>>

\* Classify as it would be if a status outside 200..299 ended the attempt
\* with finished = false, like a transport failure.
ClassifyRetryingStatus(res) ==
    IF res.transport
    THEN [next |-> "retry", result |-> Error("transport", 0, <<>>)]
    ELSE IF res.status = 204
    THEN [next |-> "return", result |-> Empty]
    ELSE IF ~res.readOK
    THEN [next |-> "return", result |-> Error("read body", 0, <<>>)]
    ELSE IF res.status = 429
    THEN [next |-> "ratelimit", result |-> Error("rate limit", 0, <<>>)]
    ELSE IF res.status < 200 \/ res.status > 299
    THEN [next |-> "retry",
          result |-> Error("status", res.status, RespBody(res.status))]
    ELSE [next |-> "return", result |-> Bytes(RespBody(res.status))]

\* Classify as it would be without the early return for 204 of lines
\* 177-179: the body is read and returned like that of any 2xx.
ClassifyWithout204(res) ==
    IF res.transport
    THEN [next |-> "retry", result |-> Error("transport", 0, <<>>)]
    ELSE IF ~res.readOK
    THEN [next |-> "return", result |-> Error("read body", 0, <<>>)]
    ELSE IF res.status = 429
    THEN [next |-> "ratelimit", result |-> Error("rate limit", 0, <<>>)]
    ELSE IF res.status < 200 \/ res.status > 299
    THEN [next |-> "return",
          result |-> Error("status", res.status, RespBody(res.status))]
    ELSE [next |-> "return", result |-> Bytes(RespBody(res.status))]

\* handleRequest, lines 172-205: the outcome of one answered attempt.
\* next is where the caller goes: "return" (finished = true), "retry"
\* (finished = false) or "ratelimit" (the 429 branch, lines 187-200).
Classify(res) ==
    IF res.transport
    THEN [next |-> "retry", result |-> Error("transport", 0, <<>>)]
    ELSE IF res.status = 204
    THEN [next |-> "return", result |-> Empty]
    ELSE IF ~res.readOK
    THEN [next |-> "return", result |-> Error("read body", 0, <<>>)]
    ELSE IF res.status = 429
    THEN [next |-> "ratelimit", result |-> Error("rate limit", 0, <<>>)]
    ELSE IF res.status < 200 \/ res.status > 299
    THEN [next |-> "return",
          result |-> Error("status", res.status, RespBody(res.status))]
    ELSE [next |-> "return", result |-> Bytes(RespBody(res.status))]

\* ------------------------------------------------------------------ state
VARIABLES
    pc,        \* where each call stands in Request / RequestWithFiles
    fn,        \* the method of Rest each call was made through
    method,    \* the method argument of each call
    payload,   \* the jsonPayload argument of each call
    files,     \* the files argument of each call
    body,      \* the encoded body the retry loop sends
    i,         \* the loop counter i (uint8) of each call
    attempts,  \* how often each call has entered handleRequest
    result,    \* what each call returned
    rheld,     \* read locks on mu each call holds (RLock minus RUnlock)
    wowner,    \* the call inside mu.Lock() .. mu.Unlock(), or None
    wheld,     \* whether wowner has been granted the write lock
    lockedTo,  \* rest.lockedTo, ZeroTime when unset
    now,       \* the clock, in seconds
    wake,      \* the time each sleeping call wakes
    delay,     \* microseconds of the last backoff sleep of each call
    resp,      \* what the transport gave the last attempt of each call
    unread,    \* whether the body's reader still holds its bytes
    sent,      \* the body of the request each call has with the transport
    t429       \* when each call received its last 429, ZeroTime if never

inputs == <<fn, method, payload, files>>
local == <<i, attempts, result, delay, resp, t429>>
mutex == <<rheld, wowner, wheld>>
reader == <<unread, sent>>
vars == <<pc, inputs, body, local, mutex, lockedTo, now, wake, reader>>

\* Locations of a call that has ended: it returned, or it panicked.
Ended == {"done", "panic"}

Init ==
    /\ pc = [c \in Calls |-> "idle"]
    /\ fn = [c \in Calls |-> "Request"]
    /\ method = [c \in Calls |-> "POST"]
    /\ payload = [c \in Calls |-> "nil"]
    /\ files = [c \in Calls |-> <<>>]
    /\ body = [c \in Calls |-> NoBody]
    /\ i = [c \in Calls |-> 0]
    /\ attempts = [c \in Calls |-> 0]
    /\ result = [c \in Calls |-> NoResult]
    /\ rheld = [c \in Calls |-> 0]
    /\ wowner = None
    /\ wheld = FALSE
    /\ lockedTo = ZeroTime
    /\ now = 1
    /\ wake = [c \in Calls |-> ZeroTime]
    /\ delay = [c \in Calls |-> 0]
    /\ resp = [c \in Calls |-> NoResponse]
    /\ unread = [c \in Calls |-> FALSE]
    /\ sent = [c \in Calls |-> "none"]
    /\ t429 = [c \in Calls |-> ZeroTime]

\* ------------------------------------------------------------ sync.RWMutex
\* Readers of mu over all calls, returned ones included.
Readers == LET Sum[n \in 0..NumCalls] ==
                   IF n = 0 THEN 0 ELSE rheld[n] + Sum[n - 1]
           IN Sum[NumCalls]

\* mu.RLock() returns: no writer holds mu and none is waiting in Lock().
CanRLock == wowner = None

\* mu.Lock() gets past the writers' mutex and announces itself to readers.
CanLockBegin == wowner = None

\* CanLock as it would be were the lock to let its own reader through: the
\* caller's read lock is not waited for.
CanLockIgnoringOwnRead(c) == wowner = c /\ ~wheld /\ Readers - rheld[c] = 0

\* mu.Lock() returns: every reader has left.  The lock is not reentrant: a
\* read lock of the caller itself counts like any other.
CanLock(c) == wowner = c /\ ~wheld /\ Readers = 0

\* ----------------------------------------------------------------- actions
Return(c, r) ==
    /\ pc' = [pc EXCEPT ![c] = "done"]
    /\ result' = [result EXCEPT ![c] = r]

\* Entry as it would be without the delegation of lines 91-93.
EntryWithoutDelegation(f, fs) == IF f = "Request" THEN "marshal" ELSE "gate"

\* Where a call begins: Request at its line 58; RequestWithFiles hands a call
\* with no files to Request (lines 91-93) and otherwise begins at line 95.
Entry(f, fs) == IF f = "Request" \/ Len(fs) = 0 THEN "marshal" ELSE "gate"

\* The call runs the body of Request.
InRequest(c) == Entry(fn[c], files[c]) = "marshal"

\* The Content-Type handed to handleRequest, lines 79 and 151.
ContentType(c) == IF InRequest(c) THEN "application/json" ELSE "multipart/form-data"

\* A caller invokes Request (which takes no files) or RequestWithFiles.
Start(c) ==
    /\ pc[c] = "idle"
    /\ \E f \in Functions, m \in Methods, p \in Payloads, fs \in FileLists :
        /\ f = "Request" => fs = <<>>
        /\ fn' = [fn EXCEPT ![c] = f]
        /\ method' = [method EXCEPT ![c] = m]
        /\ payload' = [payload EXCEPT ![c] = p]
        /\ files' = [files EXCEPT ![c] = fs]
        /\ pc' = [pc EXCEPT ![c] = Entry(f, fs)]
    /\ UNCHANGED <<body, local, mutex, lockedTo, now, wake, reader>>

\* Request, lines 58-66.
MarshalPayload(c) ==
    /\ pc[c] = "marshal"
    /\ LET e == EncodeJSON(payload[c]) IN
        IF e.status = "ok"
        THEN /\ body' = [body EXCEPT ![c] = e.body]
             /\ unread' = [unread EXCEPT ![c] = e.body.present]
             /\ pc' = [pc EXCEPT ![c] = "gate"]
             /\ UNCHANGED result
        ELSE /\ Return(c, Error(e.err, 0, <<>>))
             /\ UNCHANGED <<body, unread>>
    /\ UNCHANGED <<inputs, i, attempts, delay, resp, t429, mutex, lockedTo, now, wake, sent>>

\* Where a call goes once the deadline check before the loop is over.
AfterGate(c) == IF InRequest(c) THEN "loop" ELSE "encode"

\* Request, lines 68-73, and RequestWithFiles, lines 95-100: the check of
\* lockedTo, read without holding mu.
GateCheck(c) ==
    /\ pc[c] = "gate"
    /\ IF lockedTo # ZeroTime /\ lockedTo > now
       THEN /\ pc' = [pc EXCEPT ![c] = "gatesleep"]
            /\ wake' = [wake EXCEPT ![c] = lockedTo]
       ELSE /\ pc' = [pc EXCEPT ![c] = AfterGate(c)]
            /\ UNCHANGED wake
    /\ UNCHANGED <<inputs, body, local, mutex, lockedTo, now, reader>>

\* RequestWithFiles, lines 102-145.  A panic ends the call without a return
\* value; the other calls are left running, as under a caller that recovers
\* (an unrecovered panic would end them as well).
EncodeFiles(c) ==
    /\ pc[c] = "encode"
    /\ LET e == EncodeMultipart(payload[c], files[c]) IN
        CASE e.status = "ok" ->
                /\ body' = [body EXCEPT ![c] = e.body]
                /\ unread' = [unread EXCEPT ![c] = e.body.present]
                /\ pc' = [pc EXCEPT ![c] = "loop"]
                /\ UNCHANGED result
          [] e.status = "err" ->
                /\ Return(c, Error(e.err, 0, <<>>))
                /\ UNCHANGED <<body, unread>>
          [] OTHER ->
                /\ pc' = [pc EXCEPT ![c] = "panic"]
                /\ UNCHANGED <<body, result, unread>>
    /\ UNCHANGED <<inputs, i, attempts, delay, resp, t429, mutex, lockedTo, now, wake, sent>>

\* for i < rest.MaxRetries { i++ ..., lines 76-77 and 148-149, and the
\* return after the loop, lines 87 and 159.
Loop(c) ==
    /\ pc[c] = "loop"
    /\ IF i[c] < MaxRetries
       THEN /\ i' = [i EXCEPT ![c] = (i[c] + 1) % Uint8Range]
            /\ pc' = [pc EXCEPT ![c] = "rlock"]
            /\ UNCHANGED result
       ELSE /\ Return(c, Error("exhausted", 0, <<>>))
            /\ UNCHANGED i
    /\ UNCHANGED <<inputs, body, attempts, delay, resp, t429, mutex, lockedTo, now, wake, reader>>

\* A call blocked in mu.RLock() (lines 78, 150) or in mu.Lock() (lines 190,
\* 197) is granted the lock.  Every call reaches line 190 from inside
\* handleRequest, that is with the read lock of line 78 or 150 still held.
Acquire(c) ==
    /\ pc[c] \in {"rlock", "lockwait1", "lockwait2"}
    /\ IF pc[c] = "rlock"
       THEN /\ CanRLock
            /\ rheld' = [rheld EXCEPT ![c] = @ + 1]
            /\ pc' = [pc EXCEPT ![c] = "send"]
            /\ UNCHANGED <<wowner, wheld>>
       ELSE /\ CanLock(c)
            /\ wheld' = TRUE
            /\ pc' = [pc EXCEPT ![c] = IF pc[c] = "lockwait1" THEN "set" ELSE "clear"]
            /\ UNCHANGED <<rheld, wowner>>
    /\ UNCHANGED <<inputs, body, local, lockedTo, now, wake, reader>>

\* http.NewRequest(method, url, payload), line 163, with the call's one
\* *bytes.Reader (line 65) or *bytes.Buffer (line 110): the request's body
\* is what the reader still holds, nothing once it has been read to its end.
RequestBody(present, fresh) ==
    IF ~present THEN "none" ELSE IF fresh THEN "full" ELSE "empty"

\* handleRequest, lines 163-172: build the request and hand it to the
\* transport.  A request that cannot be built ends the attempt (finished =
\* false) without any I/O.
Send(c) ==
    /\ pc[c] = "send"
    /\ attempts' = [attempts EXCEPT ![c] = @ + 1]
    /\ IF NewRequestOK(method[c])
       THEN /\ pc' = [pc EXCEPT ![c] = "await"]
            /\ sent' = [sent EXCEPT ![c] = RequestBody(body[c].present, unread[c])]
       ELSE /\ pc' = [pc EXCEPT ![c] = "runlock"]
            /\ UNCHANGED sent
    /\ UNCHANGED <<inputs, body, i, result, delay, resp, t429, mutex, lockedTo, now, wake, unread>>

\* handleRequest, lines 172-205: the transport answers and the answer is
\* classified.  finished = true returns from Request at line 81 (or 153),
\* in front of the RUnlock of line 83.  A server that answers has been sent
\* the request, body included; a transport failure comes before the body
\* was written (no connection) or after it (no answer in time).
Receive(c) ==
    /\ pc[c] = "await"
    /\ \E r \in Responses, written \in BOOLEAN :
        LET o == Classify(r) IN
        /\ written \/ r.transport
        /\ unread' = [unread EXCEPT ![c] = @ /\ ~written]
        /\ sent' = [sent EXCEPT ![c] = "none"]
        /\ resp' = [resp EXCEPT ![c] = r]
        /\ CASE o.next = "return" ->
                /\ Return(c, o.result)
                /\ UNCHANGED t429
             [] o.next = "retry" ->
                /\ pc' = [pc EXCEPT ![c] = "runlock"]
                /\ UNCHANGED <<result, t429>>
             [] OTHER ->
                /\ pc' = [pc EXCEPT ![c] = "lock1"]
                /\ t429' = [t429 EXCEPT ![c] = now]
                /\ UNCHANGED result
    /\ UNCHANGED <<inputs, body, i, attempts, delay, mutex, lockedTo, now, wake>>

\* mu.Lock(), lines 190 and 197: the caller takes the writers' mutex; from
\* now on no new reader is admitted, and the caller waits for the readers
\* there are to leave.
LockBegin(c) ==
    /\ pc[c] \in {"lock1", "lock2"}
    /\ CanLockBegin
    /\ wowner' = c
    /\ pc' = [pc EXCEPT ![c] = IF pc[c] = "lock1" THEN "lockwait1" ELSE "lockwait2"]
    /\ UNCHANGED <<inputs, body, local, rheld, wheld, lockedTo, now, wake, reader>>

\* mu.RUnlock(), lines 83 and 155, followed by the backoff sleep's start; and
\* the two critical sections of the 429 branch up to their mu.Unlock():
\* lines 191-193 set lockedTo, lines 198-200 clear it and end the attempt
\* with finished = false.
Release(c) ==
    /\ pc[c] \in {"runlock", "set", "clear"}
    /\ CASE pc[c] = "runlock" ->
                /\ rheld' = [rheld EXCEPT ![c] = @ - 1]
                /\ delay' = [delay EXCEPT ![c] = BackoffMicros(i[c])]
                /\ wake' = [wake EXCEPT ![c] = now + (BackoffMicros(i[c]) \div MicrosPerSecond)]
                /\ pc' = [pc EXCEPT ![c] = "backoff"]
                /\ UNCHANGED <<wowner, wheld, lockedTo>>
         [] pc[c] = "set" ->
                /\ lockedTo' = now + RateLimitSeconds(resp[c].retryAfter)
                /\ wake' = [wake EXCEPT ![c] = now + RateLimitSeconds(resp[c].retryAfter)]
                /\ wowner' = None
                /\ wheld' = FALSE
                /\ pc' = [pc EXCEPT ![c] = "ratesleep"]
                /\ UNCHANGED <<rheld, delay>>
         [] OTHER ->
                /\ lockedTo' = ZeroTime
                /\ wowner' = None
                /\ wheld' = FALSE
                /\ pc' = [pc EXCEPT ![c] = "runlock"]
                /\ UNCHANGED <<rheld, delay, wake>>
    /\ UNCHANGED <<inputs, body, i, attempts, result, resp, t429, now, reader>>

\* time.Sleep returns: lines 71 and 98 (the deadline before the loop), 84
\* and 156 (backoff), 195 (the rate limit).
Sleep(c) ==
    /\ pc[c] \in {"gatesleep", "backoff", "ratesleep"}
    /\ now >= wake[c]
    /\ pc' = [pc EXCEPT ![c] =
                CASE pc[c] = "gatesleep" -> AfterGate(c)
                  [] pc[c] = "backoff" -> "loop"
                  [] OTHER -> "lock2"]
    /\ UNCHANGED <<inputs, body, local, mutex, lockedTo, now, wake, reader>>

\* Time passes: by a second while the clock is within its bound, or up to
\* the deadline a sleeper waits for.
Tick ==
    /\ \E t \in {now + 1} \cup {wake[c] : c \in Calls} :
        /\ t > now
        /\ t <= MaxTime \/ \E c \in Calls : pc[c] \in {"gatesleep", "ratesleep"} /\ wake[c] = t
        /\ now' = t
    /\ UNCHANGED <<pc, inputs, body, local, mutex, lockedTo, wake, reader>>

Step(c) ==
    \/ Start(c)
    \/ MarshalPayload(c)
    \/ GateCheck(c)
    \/ EncodeFiles(c)
    \/ Loop(c)
    \/ Acquire(c)
    \/ Send(c)
    \/ Receive(c)
    \/ LockBegin(c)
    \/ Release(c)
    \/ Sleep(c)

Next == (\E c \in Calls : Step(c)) \/ Tick

Spec == Init /\ [][Next]_vars

\* The scheduler runs every goroutine that can run, and the transport
\* answers every attempt.
FairSpec == Spec /\ \A c \in Calls : WF_vars(Step(c))

\* ================================================================ claims
\* A call that was made and has neither returned nor panicked.
InFlight(c) == pc[c] \notin Ended \cup {"idle"}

\* The deadline a 429 received by c calls for, in tenths of a second:
\* retry_after + 5 seconds after the response.
CooldownEnd10(c) == t429[c] * 10 + resp[c].retryAfter + RateLimitMargin * 10

\* C1: with any number of concurrent calls of which at least one received a
\* 429, the system is never deadlocked: never is some call in flight while
\* no call can take a step.
C1_NoDeadlockAfter429 ==
    (\E c \in Calls : t429[c] # ZeroTime) =>
        ~((\E c \in Calls : InFlight(c)) /\ (\A c \in Calls : ~ENABLED Step(c)))

\* C2: every call that was made eventually returns exactly one outcome,
\* bytes (possibly none) or one error, whatever the transport answers.
C2_EveryCallReturns ==
    \A c \in Calls :
        (pc[c] # "idle") ~> (pc[c] = "done" /\ result[c].kind # "none")

\* C3: a call never makes more than MaxRetries attempts, the exhausted-retries
\* error is returned after exactly MaxRetries attempts, and a call whose
\* attempts all end in a retryable failure (a 429 among them) does get there:
\* once it has made an attempt it eventually returns.
C3_ExhaustedAfterMaxRetries ==
    \A c \in Calls :
        /\ [](attempts[c] <= MaxRetries)
        /\ [](result[c].kind = "exhausted" => attempts[c] = MaxRetries /\ pc[c] = "done")
        /\ (attempts[c] > 0 /\ ~resp[c].transport /\ resp[c].status = 429)
                ~> (result[c].kind # "none")

\* A response with a status outside 200..299 that is not 429.
IsApplicationError(r) ==
    ~r.transport /\ r.status # 0 /\ (r.status < 200 \/ r.status > 299) /\ r.status # 429

\* The attempt that was answered last was the last thing the call did: no
\* further attempt and no backoff sleep came after it.
ReturnedRightAfterAttempt(c) ==
    /\ pc[c] = "done"
    /\ i[c] = attempts[c]
    /\ delay[c] = IF attempts[c] = 1 THEN 0 ELSE BackoffMicros(attempts[c] - 1)

\* C4 as stated: an attempt answered with a status outside 200..299 other
\* than 429 makes the call return at once with an error carrying the status
\* and the response body, with no further attempt and no backoff sleep.
C4_StatusErrorAlwaysCarriesBody ==
    \A c \in Calls :
        IsApplicationError(resp[c]) =>
            /\ ReturnedRightAfterAttempt(c)
            /\ result[c] = Error("status", resp[c].status, RespBody(resp[c].status))

\* C4 as amended: such an attempt makes the call return at once, with no
\* further attempt and no backoff sleep, whatever budget remains; the error
\* carries the status and the response body when the body could be read,
\* and is the body-read error when it could not.
C4_StatusErrorReturnsAtOnce ==
    \A c \in Calls :
        IsApplicationError(resp[c]) =>
            /\ ReturnedRightAfterAttempt(c)
            /\ result[c] = IF resp[c].readOK
                           THEN Error("status", resp[c].status, RespBody(resp[c].status))
                           ELSE Error("read body", 0, <<>>)

\* C4's case: a 404 with a readable body on an attempt that leaves budget.
C4_Witness ==
    \E c \in Calls :
        /\ IsApplicationError(resp[c]) /\ resp[c].readOK
        /\ pc[c] = "done" /\ result[c].kind = "status"
        /\ attempts[c] = 2 /\ attempts[c] < MaxRetries

\* C5: an attempt answered 204 makes the call return success with a nil body
\* and a nil error, with no further attempt.
C5_NoContentIsEmptySuccess ==
    \A c \in Calls :
        (~resp[c].transport /\ resp[c].status = 204) =>
            /\ ReturnedRightAfterAttempt(c)
            /\ result[c] = Empty

\* C5's case: a call has been answered 204 and has returned.
C5_Witness ==
    \E c \in Calls :
        /\ ~resp[c].transport /\ resp[c].status = 204
        /\ pc[c] = "done" /\ attempts[c] >= 1

\* C6: once an attempt has received a 429 with retry_after = r, the shared
\* deadline gets set to at least r + 5 seconds after that response.
C6_DeadlineSetAfter429 ==
    \A c \in Calls :
        (pc[c] = "lock1") ~> (lockedTo # ZeroTime /\ lockedTo * 10 >= CooldownEnd10(c))

\* C7: after a call c has received a 429, no other call d returns the result
\* of an attempt (success or error) before the deadline that 429 calls for:
\* every such return is at or after retry_after + 5 seconds from the 429.
C7_NoResultDuringCooldown ==
    [][\A c, d \in Calls :
        (c # d /\ t429[c] # ZeroTime /\ pc[d] = "await" /\ pc'[d] = "done")
            => now' * 10 >= CooldownEnd10(c)]_vars

\* C8: a 429 is absorbed as wait-and-retry: a call that receives a 429 on an
\* attempt that leaves budget goes on to a further attempt (whose 2xx it then
\* returns); the rate limit is no dead end while budget remains.
C8_RateLimitAbsorbed ==
    \A c \in Calls : \A n \in 1..(MaxRetries - 1) :
        (pc[c] = "lock1" /\ attempts[c] = n) ~> (attempts[c] > n)

\* The arguments of c cannot be encoded: the payload has no JSON form, or a
\* file's Stat fails, or a file's content cannot be copied into its part.
EncodingFails(c) ==
    \/ payload[c] = "unserializable"
    \/ FirstBadFile(files[c]) # 0

\* The call is past the encoding of its body.
PastEncoding(c) == pc[c] \notin {"idle", "marshal", "gate", "gatesleep", "encode"}

\* C9: a call whose payload or files cannot be encoded returns an error
\* without any attempt, without entering the retry loop and without touching
\* the gate's lock.
C9_EncodingErrorIsTerminal ==
    \A c \in Calls :
        (EncodingFails(c) /\ PastEncoding(c)) =>
            /\ pc[c] = "done"
            /\ result[c].kind \in {"parse payload", "stat file", "copy file"}
            /\ attempts[c] = 0 /\ i[c] = 0
            /\ rheld[c] = 0 /\ wowner # c

\* The file parts of a body name the files in the caller's order.
FilePartsInOrder(ps, fs) ==
    /\ Len(ps) = Len(fs)
    /\ \A k \in 1..Len(fs) :
        ps[k].disposition = <<"files", k - 1>> /\ ps[k].filename = fs[k].name

\* C10: RequestWithFiles with N >= 1 encodable files completes the encoding
\* and goes on to attempt the request; the body has the JSON part and then
\* the N file parts in the caller's order when there is a payload, and the
\* N file parts alone when the payload is nil.
C10_MultipartParts ==
    \A c \in Calls :
        (Len(files[c]) >= 1 /\ ~EncodingFails(c) /\ PastEncoding(c)) =>
            /\ pc[c] # "panic"
            /\ IF payload[c] = "nil"
               THEN FilePartsInOrder(body[c].parts, files[c])
               ELSE /\ Len(body[c].parts) = Len(files[c]) + 1
                    /\ body[c].parts[1].disposition = <<"payload_json", 0>>
                    /\ FilePartsInOrder(Tail(body[c].parts), files[c])

\* The JSON texts a body carries: the bytes in front of the first boundary
\* (the whole body on the plain path) and the content of the JSON part.
HasNullArray(text) == \E k \in 1..Len(text) : text[k] = requestSwapNullArray
JsonTexts(b) ==
    {b.pre} \cup {b.parts[k].data : k \in {j \in 1..Len(b.parts) :
                                            b.parts[j].disposition[1] = "payload_json"}}

\* C11: the JSON a call sends never holds a null in the place of an array,
\* neither as the plain body of Request nor as the JSON part of the multipart
\* body of RequestWithFiles, and patching patched text changes nothing.
C11_NoNullArraySent ==
    \A c \in Calls :
        (body[c].present /\ pc[c] \in {"await", "done", "runlock", "lock1"}) =>
            /\ \A t \in JsonTexts(body[c]) : ~HasNullArray(t)
            /\ BytesReplace(body[c].pre, requestSwapNullArray, requestSwapEmptyArray)
                    = body[c].pre

\* A call sends an attempt in this step.
Sends(c) == pc[c] = "send" /\ pc'[c] = "await"

\* C12: the deadline is consulted before every attempt: a call comes to the
\* head of its loop only from the deadline check (or the encoding that
\* follows it), never straight from the previous attempt, and no attempt is
\* sent while the deadline is set and in the future.
C12_GateBeforeEveryAttempt ==
    [][\A c \in Calls :
        /\ (pc[c] # "loop" /\ pc'[c] = "loop")
                => pc[c] \in {"gate", "gatesleep", "encode"}
        /\ Sends(c) => ~(lockedTo # ZeroTime /\ lockedTo > now)]_vars

\* C13: a call that enters or waits in mu.Lock() holds no read lock on mu.
C13_NoLockWhileReadLocked ==
    \A c \in Calls :
        pc[c] \in {"lock1", "lockwait1", "lock2", "lockwait2"} => rheld[c] = 0

\* C15: the backoff delay grows strictly with the attempt number: the sleep
\* after attempt n + 1 is longer than the sleep after attempt n.
C15_BackoffGrows ==
    \A c \in Calls :
        (pc[c] = "backoff" /\ i[c] >= 2) => delay[c] > BackoffMicros(i[c] - 1)

\* C16: a call that is ready to attempt is not held up by another call's
\* blocking point: waiting for the read lock, it gets on to its attempt.
C16_ReadyCallProceeds ==
    \A c \in Calls : (pc[c] = "rlock") ~> (pc[c] = "send")

\* The call holds mu, shared or exclusive.
HoldsMu(c) == rheld[c] > 0 \/ (wowner = c /\ wheld)

\* C17: every read and every write of lockedTo is made under mu, so that the
\* lock orders each read against each write: the check before the loop
\* reads it holding the lock, a write holds it exclusively, and never are
\* two calls inside the writing sections.
C17_DeadlineAccessUnderLock ==
    [][\A c \in Calls :
        /\ (pc[c] = "gate" /\ pc'[c] # "gate") => HoldsMu(c)
        /\ (pc[c] \in {"set", "clear"} /\ pc'[c] # pc[c]) => (wowner = c /\ wheld)
        /\ \A d \in Calls : (pc[c] \in {"set", "clear"} /\ pc[d] \in {"set", "clear"}) => c = d]_vars

\* C18: a call that has returned holds no read lock, so with no call in flight
\* the lock has no reader.
C18_ReadLocksBalanced ==
    /\ \A c \in Calls : pc[c] = "done" => rheld[c] = 0
    /\ (\A c \in Calls : ~InFlight(c)) => Readers = 0

\* C19: lockedTo keeps its zero value: no call ever gets into the sections
\* that write it, and the check before the loop never sleeps.
C19_DeadlineNeverSet ==
    /\ lockedTo = ZeroTime
    /\ \A c \in Calls :
        pc[c] \notin {"set", "ratesleep", "lock2", "lockwait2", "clear", "gatesleep"}

\* C19's case: a call has received a 429 and waits in mu.Lock(), the deadline
\* still unset, while another call is past the check before its loop.
C19_Witness ==
    \E c, d \in Calls :
        /\ c # d /\ pc[c] = "lockwait1" /\ t429[c] # ZeroTime
        /\ pc[d] = "rlock" /\ attempts[d] = 0
        /\ lockedTo = ZeroTime

\* C14: every attempt of a call hands the transport the call's full encoded
\* body, also after an earlier attempt that failed has read it.
C14_SameBodyEveryAttempt ==
    \A c \in Calls :
        (body[c].present /\ pc[c] = "await") => sent[c] = "full"

\* C20: a call of RequestWithFiles with no files is in every respect a call of
\* Request with the same method, route and payload: it runs Request's code
\* and never the multipart encoding, its body is the plain JSON body of the
\* payload, its content type is JSON, and what it returns for an unencodable
\* payload is Request's error.
C20_NoFilesIsRequest ==
    \A c \in Calls :
        (fn[c] = "RequestWithFiles" /\ Len(files[c]) = 0 /\ pc[c] # "idle") =>
            /\ pc[c] \notin {"encode", "panic"}
            /\ ContentType(c) = "application/json"
            /\ pc[c] # "marshal" =>
                IF EncodeJSON(payload[c]).status = "ok"
                THEN body[c] = EncodeJSON(payload[c]).body
                ELSE /\ pc[c] = "done" /\ attempts[c] = 0
                     /\ result[c] = Error(EncodeJSON(payload[c]).err, 0, <<>>)

\* C20's case: RequestWithFiles, called with a payload and no files, has
\* made its attempt and returned the bytes of a 2xx.
C20_Witness ==
    \E c \in Calls :
        /\ fn[c] = "RequestWithFiles" /\ Len(files[c]) = 0 /\ payload[c] = "obj"
        /\ pc[c] = "done" /\ result[c].kind = "bytes" /\ attempts[c] >= 1

====
